---- MODULE Spec2Model ----
(***************************************************************************)
(* Model of the user-record service of golang-lambda (package user):       *)
(* FetchUser, FetchAllUsers, CreateUser, UpdateUser and DeleteUser run as  *)
(* independent invocations against one DynamoDB table keyed by the         *)
(* "email" attribute, and the handlers that answer for them.               *)
(* Every store call is one atomic step; the code between two store calls   *)
(* of an invocation is local and is folded into the step of the call that  *)
(* precedes it.                                                            *)
(***************************************************************************)
EXTENDS Integers, Sequences, FiniteSets, TLC

\* ------------------------------------------------------------------ bounds
MaxInvocations == 3

\* two invocation slots: the code runs any number of independent invocations
Procs == {1, 2}

\* ------------------------------------------------- error message constants
ErrorCouldNotDynamoPutItem == "could not update record"
ErrorCouldNotMarshalItem == "fail to marshal record"
ErrorFailedToDeleteRecord == "failed to delete record"
ErrorFailedToFetchRecord == "failed to fetch record"
ErrorFailedToUnmarshalRecord == "failed to unmarshal record"
ErrorInvalidEmail == "invalid email"
ErrorInvalidUserData == "invalid user data"
ErrorUserAlreadyExists == "user already exists"

Taxonomy ==
  {ErrorCouldNotDynamoPutItem, ErrorCouldNotMarshalItem, ErrorFailedToDeleteRecord,
   ErrorFailedToFetchRecord, ErrorFailedToUnmarshalRecord, ErrorInvalidEmail,
   ErrorInvalidUserData, ErrorUserAlreadyExists}

\* a nil error, and the opaque errors the store client can return
NoErr == "<nil>"
StoreErrors == {"test error"}

\* ------------------------------------------------------------ Go strings
\* A Go string is a tuple of one-character strings; "" is <<>>.
EmailA == <<"a", "@", "b", ".", "c">>
EmailB == <<"d", "@", "b", ".", "c">>
EmailNoAt == <<"b", "a", "d">>
EmailSpace == <<"a", " ", "@", "b", ".", "c">>
EmptyString == <<>>
Emails == {EmailA, EmailB, EmailNoAt, EmailSpace, EmptyString}
FirstNames == {<<"A">>, <<"B">>}
LastNames == {<<"L">>}

\* ------------------------------------------------------------- User type
User(e, f, l) == [Email |-> e, FirstName |-> f, LastName |-> l]
NilUser == [nil |-> TRUE]

\* ------------------------------------------------------- request bodies
\* A JSON value of a body field: a string, a number, or the field is absent.
JStr(s) == [t |-> "string", v |-> s]
JNum == [t |-> "number", v |-> <<"1">>]
JAbsent == [t |-> "absent", v |-> <<>>]

Body(ok, e, f, l) == [syntax |-> ok, email |-> e, firstName |-> f, lastName |-> l]

MalformedBody == Body(FALSE, JAbsent, JAbsent, JAbsent)
Bodies ==
  {MalformedBody}
  \cup {Body(TRUE, JStr(EmailA), JStr(f), JStr(l)) : f \in FirstNames, l \in LastNames}
  \cup {Body(TRUE, e, JStr(<<"A">>), JStr(l)) :
          e \in {JStr(EmailB), JStr(EmailNoAt), JStr(EmailSpace), JAbsent, JNum}, l \in LastNames}
  \cup {Body(TRUE, JStr(EmailA), JNum, JStr(l)) : l \in LastNames}

\* json.Unmarshal([]byte(req.Body), &u): a syntax error or a non-string value
\* for a string field is an error; an absent field leaves the zero value "".
JField(j) == IF j.t = "string" THEN j.v ELSE EmptyString

\* variant: a non-string value is skipped instead of reported
Unmarshal_Lenient(body) ==
  IF ~body.syntax
  THEN [u |-> NilUser, err |-> "json error"]
  ELSE [u |-> User(JField(body.email), JField(body.firstName), JField(body.lastName)),
        err |-> NoErr]

Unmarshal(body) ==
  IF ~body.syntax \/ body.email.t = "number" \/ body.firstName.t = "number"
     \/ body.lastName.t = "number"
  THEN [u |-> NilUser, err |-> "json error"]
  ELSE [u |-> User(JField(body.email), JField(body.firstName), JField(body.lastName)),
        err |-> NoErr]

\* validators.IsEmailValid: local-part@domain, a dot inside the domain, no
\* whitespace.
IsEmailValid(e) ==
  /\ \A i \in 1..Len(e) : e[i] # " "
  /\ \E i \in 2..Len(e) :
       /\ e[i] = "@"
       /\ \A k \in 1..Len(e) : e[k] = "@" => k = i
       /\ \E j \in (i + 2)..(Len(e) - 1) : e[j] = "."

\* --------------------------------------------------------- the store
\* An item is an attribute map, a set of <<name, value>> pairs.  The table
\* is a set of items; its key attribute is "email".
EmptyItem == {}

Attr(item, name) ==
  IF \E a \in item : a[1] = name
  THEN (CHOOSE a \in item : a[1] = name)[2]
  ELSE EmptyString

\* dynamodbattribute.MarshalMap(u)
MarshalMap(u) ==
  {<<"email", u.Email>>, <<"firstName", u.FirstName>>, <<"lastName", u.LastName>>}

\* dynamodbattribute.UnmarshalMap(result.Item, item)
UnmarshalMap(item) ==
  User(Attr(item, "email"), Attr(item, "firstName"), Attr(item, "lastName"))

RecordsFor(st, email) == {i \in st : Attr(i, "email") = email}

\* dynaClient.GetItem with Key {"email": email}
GetItem(st, email, err) ==
  IF err # NoErr THEN [Item |-> EmptyItem, err |-> err]
  ELSE IF RecordsFor(st, email) = {} THEN [Item |-> EmptyItem, err |-> NoErr]
  ELSE [Item |-> CHOOSE i \in RecordsFor(st, email) : TRUE, err |-> NoErr]

\* variant: the put adds the item without replacing the one under its key
PutItem_Append(st, item) == st \cup {item}

\* variant: the put keeps the item already stored under the key
PutItem_FirstWins(st, item) ==
  IF RecordsFor(st, Attr(item, "email")) # {} THEN st ELSE st \cup {item}

\* dynaClient.PutItem: full overwrite of the item under the same key
PutItem(st, item) ==
  (st \ RecordsFor(st, Attr(item, "email"))) \cup {item}

\* dynaClient.DeleteItem with Key {"email": email}
DeleteItem(st, email) == st \ RecordsFor(st, email)

\* dynaClient.Scan: every item of the table, in an order the store chooses
Orderings(st) ==
  {f \in [1..Cardinality(st) -> st] : \A i, j \in 1..Cardinality(st) : f[i] = f[j] => i = j}

Scan(order, err) ==
  IF err # NoErr THEN [Items |-> <<>>, err |-> err]
  ELSE [Items |-> order, err |-> NoErr]

\* the []User a successful FetchAllUsers returns
UserList(seq) == [list |-> seq]

\* dynamodbattribute.UnmarshalListOfMaps(result.Items, &item)
UnmarshalListOfMaps(items) ==
  UserList([i \in 1..Len(items) |-> UnmarshalMap(items[i])])

\* variant: a scan that finds no record is reported as a failed fetch
FetchAllUsers_EmptyIsError(result) ==
  IF result.err # NoErr \/ Len(result.Items) = 0
  THEN [users |-> NilUser, err |-> ErrorFailedToFetchRecord]
  ELSE [users |-> UnmarshalListOfMaps(result.Items), err |-> NoErr]

\* FetchAllUsers, given the outcome of its Scan call
FetchAllUsers(result) ==
  IF result.err # NoErr
  THEN [users |-> NilUser, err |-> ErrorFailedToFetchRecord]
  ELSE [users |-> UnmarshalListOfMaps(result.Items), err |-> NoErr]

\* variant: the GetItem error is dropped and the empty output is unmarshalled
FetchUser_IgnoresErr(result) ==
  [user |-> UnmarshalMap(result.Item), err |-> NoErr]

\* variant: the GetItem error is returned as it came
FetchUser_RawErr(result) ==
  IF result.err # NoErr
  THEN [user |-> NilUser, err |-> result.err]
  ELSE [user |-> UnmarshalMap(result.Item), err |-> NoErr]

\* FetchUser, given the outcome of its GetItem call
FetchUser(result) ==
  IF result.err # NoErr
  THEN [user |-> NilUser, err |-> ErrorFailedToFetchRecord]
  ELSE [user |-> UnmarshalMap(result.Item), err |-> NoErr]

\* variant: CreateUser tests the condition UpdateUser tests
CreateExists_AsUpdate(existingUser) ==
  existingUser = NilUser /\ Len(existingUser.Email) = 0

\* CreateUser: existingUser != nil && len(existingUser.Email) != 0
CreateExists(existingUser) ==
  existingUser # NilUser /\ Len(existingUser.Email) # 0

\* UpdateUser: existingUser == nil && len(existingUser.Email) == 0
UpdateMissing(existingUser) ==
  existingUser = NilUser /\ Len(existingUser.Email) = 0

\* ------------------------------------------------------------- state
VARIABLES
  store,      \* the table: a set of items
  pc,         \* per invocation slot: "idle", the store call it is about to make, or "done"
  op,         \* the operation the slot runs
  req,        \* its request: Body and the "email" query parameter
  res,        \* what it returned: [user, err]
  calls,      \* the store calls it has issued, in order
  started     \* number of invocations started so far

vars == <<store, pc, op, req, res, calls, started>>

Request(b, q) == [Body |-> b, QueryEmail |-> q]
NoRequest == Request(MalformedBody, EmptyString)
Pending == [user |-> NilUser, err |-> "pending"]
Return(usr, e) == [user |-> usr, err |-> e]

Call(api, key, e, item, hit) == [api |-> api, key |-> key, err |-> e, item |-> item, hit |-> hit]

Init ==
  /\ store = {}
  /\ pc = [p \in Procs |-> "idle"]
  /\ op = [p \in Procs |-> "none"]
  /\ req = [p \in Procs |-> NoRequest]
  /\ res = [p \in Procs |-> Pending]
  /\ calls = [p \in Procs |-> <<>>]
  /\ started = 0

CanStart(p) == pc[p] \in {"idle", "done"} /\ started < MaxInvocations

U(p) == Unmarshal(req[p].Body).u

\* variant: CreateUser skips the email check, as UpdateUser does
CreateBegin_NoEmailCheck(p, body) ==
  /\ CanStart(p)
  /\ started' = started + 1
  /\ op' = [op EXCEPT ![p] = "Create"]
  /\ req' = [req EXCEPT ![p] = Request(body, EmptyString)]
  /\ calls' = [calls EXCEPT ![p] = <<>>]
  /\ IF Unmarshal(body).err # NoErr
     THEN /\ res' = [res EXCEPT ![p] = Return(NilUser, ErrorInvalidUserData)]
          /\ pc' = [pc EXCEPT ![p] = "done"]
     ELSE /\ res' = [res EXCEPT ![p] = Pending]
          /\ pc' = [pc EXCEPT ![p] = "FetchUser"]
  /\ UNCHANGED store

\* CreateUser up to the FetchUser call: decode, then the email check
CreateBegin(p, body) ==
  /\ CanStart(p)
  /\ started' = started + 1
  /\ op' = [op EXCEPT ![p] = "Create"]
  /\ req' = [req EXCEPT ![p] = Request(body, EmptyString)]
  /\ calls' = [calls EXCEPT ![p] = <<>>]
  /\ IF Unmarshal(body).err # NoErr
     THEN /\ res' = [res EXCEPT ![p] = Return(NilUser, ErrorInvalidUserData)]
          /\ pc' = [pc EXCEPT ![p] = "done"]
     ELSE IF ~IsEmailValid(Unmarshal(body).u.Email)
     THEN /\ res' = [res EXCEPT ![p] = Return(NilUser, ErrorInvalidEmail)]
          /\ pc' = [pc EXCEPT ![p] = "done"]
     ELSE /\ res' = [res EXCEPT ![p] = Pending]
          /\ pc' = [pc EXCEPT ![p] = "FetchUser"]
  /\ UNCHANGED store

\* CreateUser: the FetchUser call and the existence check
CreateFetch(p, storeErr) ==
  /\ pc[p] = "FetchUser" /\ op[p] = "Create"
  /\ LET result == GetItem(store, U(p).Email, storeErr)
         fetched == FetchUser(result)
     IN /\ calls' = [calls EXCEPT ![p] =
                       Append(@, Call("GetItem", U(p).Email, result.err, result.Item,
                                      result.Item # EmptyItem))]
        /\ IF fetched.err # NoErr
           THEN /\ res' = [res EXCEPT ![p] = Return(NilUser, ErrorFailedToFetchRecord)]
                /\ pc' = [pc EXCEPT ![p] = "done"]
           ELSE IF CreateExists(fetched.user)
           THEN /\ res' = [res EXCEPT ![p] = Return(NilUser, ErrorUserAlreadyExists)]
                /\ pc' = [pc EXCEPT ![p] = "done"]
           ELSE /\ res' = res
                /\ pc' = [pc EXCEPT ![p] = "PutItem"]
  /\ UNCHANGED <<store, op, req, started>>

\* variant: CreateUser returns existingUser instead of &u
CreatePut_ReturnsExisting(p, storeErr) ==
  /\ pc[p] = "PutItem" /\ op[p] = "Create"
  /\ LET av == MarshalMap(U(p))
     IN /\ calls' = [calls EXCEPT ![p] =
                       Append(@, Call("PutItem", Attr(av, "email"), storeErr, av,
                                      RecordsFor(store, Attr(av, "email")) # {}))]
        /\ IF storeErr # NoErr
           THEN /\ res' = [res EXCEPT ![p] = Return(NilUser, ErrorCouldNotDynamoPutItem)]
                /\ store' = store
           ELSE /\ res' = [res EXCEPT ![p] = Return(UnmarshalMap(calls[p][1].item), NoErr)]
                /\ store' = PutItem(store, av)
  /\ pc' = [pc EXCEPT ![p] = "done"]
  /\ UNCHANGED <<op, req, started>>

\* variant: CreateUser issues the put a second time when the first one fails
CreatePut_Retry(p, storeErr) ==
  /\ pc[p] = "PutItem" /\ op[p] = "Create"
  /\ LET av == MarshalMap(U(p))
         hit == RecordsFor(store, Attr(av, "email")) # {}
     IN /\ calls' = [calls EXCEPT ![p] =
                       IF storeErr # NoErr
                       THEN @ \o <<Call("PutItem", Attr(av, "email"), storeErr, av, hit),
                                   Call("PutItem", Attr(av, "email"), NoErr, av, hit)>>
                       ELSE Append(@, Call("PutItem", Attr(av, "email"), NoErr, av, hit))]
        /\ res' = [res EXCEPT ![p] = Return(U(p), NoErr)]
        /\ store' = PutItem(store, av)
  /\ pc' = [pc EXCEPT ![p] = "done"]
  /\ UNCHANGED <<op, req, started>>

\* CreateUser: marshal, the PutItem call, and the return
CreatePut(p, storeErr) ==
  /\ pc[p] = "PutItem" /\ op[p] = "Create"
  /\ LET av == MarshalMap(U(p))
     IN /\ calls' = [calls EXCEPT ![p] =
                       Append(@, Call("PutItem", Attr(av, "email"), storeErr, av,
                                      RecordsFor(store, Attr(av, "email")) # {}))]
        /\ IF storeErr # NoErr
           THEN /\ res' = [res EXCEPT ![p] = Return(NilUser, ErrorCouldNotDynamoPutItem)]
                /\ store' = store
           ELSE /\ res' = [res EXCEPT ![p] = Return(U(p), NoErr)]
                /\ store' = PutItem(store, av)
  /\ pc' = [pc EXCEPT ![p] = "done"]
  /\ UNCHANGED <<op, req, started>>

\* UpdateUser up to the FetchUser call: decode only
UpdateBegin(p, body) ==
  /\ CanStart(p)
  /\ started' = started + 1
  /\ op' = [op EXCEPT ![p] = "Update"]
  /\ req' = [req EXCEPT ![p] = Request(body, EmptyString)]
  /\ calls' = [calls EXCEPT ![p] = <<>>]
  /\ IF Unmarshal(body).err # NoErr
     THEN /\ res' = [res EXCEPT ![p] = Return(NilUser, ErrorInvalidUserData)]
          /\ pc' = [pc EXCEPT ![p] = "done"]
     ELSE /\ res' = [res EXCEPT ![p] = Pending]
          /\ pc' = [pc EXCEPT ![p] = "FetchUser"]
  /\ UNCHANGED store

\* UpdateUser: the FetchUser call and the existence check
UpdateFetch(p, storeErr) ==
  /\ pc[p] = "FetchUser" /\ op[p] = "Update"
  /\ LET result == GetItem(store, U(p).Email, storeErr)
         fetched == FetchUser(result)
     IN /\ calls' = [calls EXCEPT ![p] =
                       Append(@, Call("GetItem", U(p).Email, result.err, result.Item,
                                      result.Item # EmptyItem))]
        /\ IF fetched.err # NoErr
           THEN /\ res' = [res EXCEPT ![p] = Return(NilUser, fetched.err)]
                /\ pc' = [pc EXCEPT ![p] = "done"]
           ELSE IF UpdateMissing(fetched.user)
           THEN /\ res' = [res EXCEPT ![p] = Return(NilUser, ErrorUserAlreadyExists)]
                /\ pc' = [pc EXCEPT ![p] = "done"]
           ELSE /\ res' = res
                /\ pc' = [pc EXCEPT ![p] = "PutItem"]
  /\ UNCHANGED <<store, op, req, started>>

\* variant: UpdateUser hands back &u together with the write error
UpdatePut_ReturnsRecordOnFailure(p, storeErr) ==
  /\ pc[p] = "PutItem" /\ op[p] = "Update"
  /\ LET av == MarshalMap(U(p))
     IN /\ calls' = [calls EXCEPT ![p] =
                       Append(@, Call("PutItem", Attr(av, "email"), storeErr, av,
                                      RecordsFor(store, Attr(av, "email")) # {}))]
        /\ IF storeErr # NoErr
           THEN /\ res' = [res EXCEPT ![p] = Return(U(p), ErrorCouldNotDynamoPutItem)]
                /\ store' = store
           ELSE /\ res' = [res EXCEPT ![p] = Return(U(p), NoErr)]
                /\ store' = PutItem(store, av)
  /\ pc' = [pc EXCEPT ![p] = "done"]
  /\ UNCHANGED <<op, req, started>>

\* UpdateUser: marshal, the PutItem call, and the return
UpdatePut(p, storeErr) ==
  /\ pc[p] = "PutItem" /\ op[p] = "Update"
  /\ LET av == MarshalMap(U(p))
     IN /\ calls' = [calls EXCEPT ![p] =
                       Append(@, Call("PutItem", Attr(av, "email"), storeErr, av,
                                      RecordsFor(store, Attr(av, "email")) # {}))]
        /\ IF storeErr # NoErr
           THEN /\ res' = [res EXCEPT ![p] = Return(NilUser, ErrorCouldNotDynamoPutItem)]
                /\ store' = store
           ELSE /\ res' = [res EXCEPT ![p] = Return(U(p), NoErr)]
                /\ store' = PutItem(store, av)
  /\ pc' = [pc EXCEPT ![p] = "done"]
  /\ UNCHANGED <<op, req, started>>

\* DeleteUser up to the DeleteItem call: the key is the "email" query parameter
DeleteBegin(p, email) ==
  /\ CanStart(p)
  /\ started' = started + 1
  /\ op' = [op EXCEPT ![p] = "Delete"]
  /\ req' = [req EXCEPT ![p] = Request(MalformedBody, email)]
  /\ calls' = [calls EXCEPT ![p] = <<>>]
  /\ res' = [res EXCEPT ![p] = Pending]
  /\ pc' = [pc EXCEPT ![p] = "DeleteItem"]
  /\ UNCHANGED store

\* variant: deleting a key that is not stored is reported as a failure
DeleteCall_RequiresExisting(p, storeErr) ==
  /\ pc[p] = "DeleteItem" /\ op[p] = "Delete"
  /\ calls' = [calls EXCEPT ![p] =
                 Append(@, Call("DeleteItem", req[p].QueryEmail, storeErr, EmptyItem,
                                RecordsFor(store, req[p].QueryEmail) # {}))]
  /\ IF storeErr # NoErr \/ RecordsFor(store, req[p].QueryEmail) = {}
     THEN /\ res' = [res EXCEPT ![p] = Return(NilUser, ErrorFailedToDeleteRecord)]
          /\ store' = store
     ELSE /\ res' = [res EXCEPT ![p] = Return(NilUser, NoErr)]
          /\ store' = DeleteItem(store, req[p].QueryEmail)
  /\ pc' = [pc EXCEPT ![p] = "done"]
  /\ UNCHANGED <<op, req, started>>

\* DeleteUser: the DeleteItem call and the return
DeleteCall(p, storeErr) ==
  /\ pc[p] = "DeleteItem" /\ op[p] = "Delete"
  /\ calls' = [calls EXCEPT ![p] =
                 Append(@, Call("DeleteItem", req[p].QueryEmail, storeErr, EmptyItem,
                                RecordsFor(store, req[p].QueryEmail) # {}))]
  /\ IF storeErr # NoErr
     THEN /\ res' = [res EXCEPT ![p] = Return(NilUser, ErrorFailedToDeleteRecord)]
          /\ store' = store
     ELSE /\ res' = [res EXCEPT ![p] = Return(NilUser, NoErr)]
          /\ store' = DeleteItem(store, req[p].QueryEmail)
  /\ pc' = [pc EXCEPT ![p] = "done"]
  /\ UNCHANGED <<op, req, started>>

\* handlers.GetUser up to its store call: a non-empty "email" query parameter
\* selects FetchUser, anything else FetchAllUsers
GetBegin(p, email) ==
  /\ CanStart(p)
  /\ started' = started + 1
  /\ op' = [op EXCEPT ![p] = "Get"]
  /\ req' = [req EXCEPT ![p] = Request(MalformedBody, email)]
  /\ calls' = [calls EXCEPT ![p] = <<>>]
  /\ res' = [res EXCEPT ![p] = Pending]
  /\ pc' = [pc EXCEPT ![p] = IF Len(email) > 0 THEN "FetchUser" ELSE "Scan"]
  /\ UNCHANGED store

\* handlers.GetUser: the FetchUser call and its result
GetFetch(p, storeErr) ==
  /\ pc[p] = "FetchUser" /\ op[p] = "Get"
  /\ LET result == GetItem(store, req[p].QueryEmail, storeErr)
         fetched == FetchUser(result)
     IN /\ calls' = [calls EXCEPT ![p] =
                       Append(@, Call("GetItem", req[p].QueryEmail, result.err, result.Item,
                                      result.Item # EmptyItem))]
        /\ res' = [res EXCEPT ![p] = Return(fetched.user, fetched.err)]
  /\ pc' = [pc EXCEPT ![p] = "done"]
  /\ UNCHANGED <<store, op, req, started>>

\* handlers.GetUser: the FetchAllUsers call and its result
GetScan(p, storeErr, order) ==
  /\ pc[p] = "Scan" /\ op[p] = "Get"
  /\ LET result == Scan(order, storeErr)
         fetched == FetchAllUsers(result)
     IN /\ calls' = [calls EXCEPT ![p] =
                       Append(@, Call("Scan", EmptyString, result.err, result.Items,
                                      Len(result.Items) > 0))]
        /\ res' = [res EXCEPT ![p] = Return(fetched.users, fetched.err)]
  /\ pc' = [pc EXCEPT ![p] = "done"]
  /\ UNCHANGED <<store, op, req, started>>

StoreOutcomes == {NoErr} \cup StoreErrors

Next ==
  \/ \E p \in Procs, body \in Bodies : CreateBegin(p, body)
  \/ \E p \in Procs, e \in StoreOutcomes : CreateFetch(p, e)
  \/ \E p \in Procs, e \in StoreOutcomes : CreatePut(p, e)
  \/ \E p \in Procs, body \in Bodies : UpdateBegin(p, body)
  \/ \E p \in Procs, e \in StoreOutcomes : UpdateFetch(p, e)
  \/ \E p \in Procs, e \in StoreOutcomes : UpdatePut(p, e)
  \/ \E p \in Procs, email \in Emails : DeleteBegin(p, email)
  \/ \E p \in Procs, e \in StoreOutcomes : DeleteCall(p, e)
  \/ \E p \in Procs, email \in Emails : GetBegin(p, email)
  \/ \E p \in Procs, e \in StoreOutcomes : GetFetch(p, e)
  \/ \E p \in Procs, e \in StoreOutcomes, order \in Orderings(store) : GetScan(p, e, order)

Spec == Init /\ [][Next]_vars

\* ------------------------------------------------------------- handlers
StatusOK == 200
StatusCreated == 201
StatusBadRequest == 400
StatusInternalServerError == 500

\* ErrorBody{aws.String(err.Error())}, as the JSON object it marshals to
ErrorBody(msg) == [error |-> msg]
NilBody == [nil |-> TRUE]

\* apiResponse(status, body): the status code and the body marshalled to JSON
apiResponse(status, body) == [StatusCode |-> status, Body |-> body]

HandleGetUser(r) ==
  IF r.err # NoErr THEN apiResponse(StatusInternalServerError, ErrorBody(r.err))
  ELSE apiResponse(StatusOK, r.user)

HandleCreateUser(r) ==
  IF r.err # NoErr THEN apiResponse(StatusInternalServerError, ErrorBody(r.err))
  ELSE apiResponse(StatusCreated, r.user)

HandleUpdateUser(r) ==
  IF r.err # NoErr THEN apiResponse(StatusInternalServerError, ErrorBody(r.err))
  ELSE apiResponse(StatusOK, r.user)

HandleDeleteUser(r) ==
  IF r.err # NoErr THEN apiResponse(StatusBadRequest, ErrorBody(r.err))
  ELSE apiResponse(StatusOK, NilBody)

\* the response the handler of slot p's operation makes of what the service returned
Response(p) ==
  CASE op[p] = "Get" -> HandleGetUser(res[p])
    [] op[p] = "Create" -> HandleCreateUser(res[p])
    [] op[p] = "Update" -> HandleUpdateUser(res[p])
    [] op[p] = "Delete" -> HandleDeleteUser(res[p])

TypeOK ==
  /\ \A p \in Procs : pc[p] \in {"idle", "FetchUser", "PutItem", "DeleteItem", "Scan", "done"}
  /\ started \in 0..MaxInvocations

\* ------------------------------------------------------------ properties
Done(p, o) == pc[p] = "done" /\ op[p] = o
Active(p, o) == pc[p] # "idle" /\ op[p] = o

\* the raw body, read without decoding it
Undecodable(b) ==
  ~b.syntax \/ \E j \in {b.email, b.firstName, b.lastName} : j.t = "number"
SubmittedUser(b) == User(b.email.v, b.firstName.v, b.lastName.v)
SubmittedItem(b) ==
  {<<"email", b.email.v>>, <<"firstName", b.firstName.v>>, <<"lastName", b.lastName.v>>}

\* the store call slot p issues in this step
LastCall(p) == calls'[p][Len(calls'[p])]

C1_ReachesLookup(p) ==
  (Active(p, "Create") /\ ~Undecodable(req[p].Body)
     /\ IsEmailValid(req[p].Body.email.v) /\ calls[p] = <<>>)
    => pc[p] = "FetchUser"
C1_CreateStep(p) ==
  /\ (op[p] = "Create" /\ pc[p] = "FetchUser" /\ pc'[p] # pc[p]
        /\ LastCall(p).err = NoErr /\ LastCall(p).item = EmptyItem)
       => pc'[p] = "PutItem"
  /\ (op[p] = "Create" /\ pc[p] = "PutItem" /\ pc'[p] # pc[p]
        /\ LastCall(p).err = NoErr)
       => /\ pc'[p] = "done"
          /\ res'[p] = Return(SubmittedUser(req[p].Body), NoErr)
          /\ RecordsFor(store', req[p].Body.email.v) = {SubmittedItem(req[p].Body)}

\* C1: a Create with a decodable body and a well-formed email reaches the
\* lookup; when the lookup succeeds with an empty attribute set it reaches the
\* write; when the write succeeds it returns, without error, a record equal
\* field for field to the submitted body, and the store then holds exactly
\* that record under that email.
C1_CreateReturnsSubmitted ==
  /\ [](\A p \in Procs : C1_ReachesLookup(p))
  /\ [][\A p \in Procs : C1_CreateStep(p)]_vars

C1_Witness ==
  \E p \in Procs :
    /\ Done(p, "Create") /\ res[p] = Return(User(EmailA, <<"B">>, <<"L">>), NoErr)
    /\ Len(calls[p]) = 2 /\ calls[p][1].item = EmptyItem
    /\ RecordsFor(store, EmailA) = {SubmittedItem(req[p].Body)}

C2_CreateStep(p) ==
  (op[p] = "Create" /\ pc[p] = "FetchUser" /\ pc'[p] # pc[p]
     /\ LastCall(p).err = NoErr /\ Attr(LastCall(p).item, "email") # EmptyString)
    => /\ pc'[p] = "done"
       /\ res'[p] = Return(NilUser, ErrorUserAlreadyExists)
       /\ Len(calls'[p]) = 1
       /\ store' = store

\* C2: a Create whose existence lookup returns a record with a non-empty
\* email is rejected with "user already exists"; it issues no write and the
\* store is left as it was.
C2_CreateRejectsExisting == [][\A p \in Procs : C2_CreateStep(p)]_vars

C2_Witness ==
  \E p \in Procs :
    /\ Done(p, "Create") /\ res[p].err = ErrorUserAlreadyExists
    /\ Len(calls[p]) = 1 /\ calls[p][1].hit
    /\ calls[p][1].item \in store

\* C3: in every reachable state the store holds at most one record per email.
C3_OneRecordPerEmail ==
  \A i, j \in store : Attr(i, "email") = Attr(j, "email") => i = j

C3_Witness ==
  /\ Cardinality(store) >= 2
  /\ \E p \in Procs : \E k \in 1..Len(calls[p]) :
       calls[p][k].api = "PutItem" /\ calls[p][k].err = NoErr /\ calls[p][k].hit

\* C4: a record for an email that has no stored record comes into existence
\* only through the write of a Create whose lookup found it absent; an Update
\* addressed to an email with no stored record never writes one.
C4_OnlyCreateAddsRecord ==
  [][\A e \in Emails :
       (RecordsFor(store, e) = {} /\ RecordsFor(store', e) # {})
         => \E p \in Procs :
              /\ op[p] = "Create" /\ pc[p] = "PutItem" /\ pc'[p] = "done"
              /\ req[p].Body.email.v = e
              /\ calls[p][1].item = EmptyItem]_vars

BothCreatesPassed(p, q) ==
  /\ p # q
  /\ Done(p, "Create") /\ res[p].err = NoErr
  /\ op[q] = "Create" /\ pc[q] = "PutItem"
  /\ req[p].Body.email.v = req[q].Body.email.v

\* C5: when a Create succeeds for an email for which another Create, also
\* having passed its existence check, has already returned success, the store
\* then holds a single record for that email, carrying the fields of the
\* later write; the earlier success stands.
C5_LastWriteWins ==
  [][\A p, q \in Procs :
       (BothCreatesPassed(p, q) /\ pc'[q] = "done" /\ res'[q].err = NoErr)
         => /\ RecordsFor(store', req[q].Body.email.v) = {SubmittedItem(req[q].Body)}
            /\ res'[p] = res[p]]_vars

C5_Witness ==
  \E p, q \in Procs :
    /\ p # q
    /\ Done(p, "Create") /\ res[p].err = NoErr
    /\ Done(q, "Create") /\ res[q].err = NoErr
    /\ req[p].Body.email.v = req[q].Body.email.v
    /\ calls[p][1].item = EmptyItem /\ calls[q][1].item = EmptyItem
    /\ calls[p][2].hit /\ ~calls[q][2].hit
    /\ req[p].Body # req[q].Body
    /\ store = {SubmittedItem(req[p].Body)}

C6_DeleteStep(p) ==
  (op[p] = "Delete" /\ pc[p] = "DeleteItem" /\ pc'[p] # pc[p] /\ LastCall(p).err = NoErr)
    => /\ pc'[p] = "done"
       /\ res'[p].err = NoErr
       /\ RecordsFor(store', req[p].QueryEmail) = {}

\* C6: a Delete whose store call does not fail returns success whether or not
\* a record with that email was stored, and leaves no record with that email;
\* so does a second Delete of the same email.
C6_DeleteIdempotent == [][\A p \in Procs : C6_DeleteStep(p)]_vars

C6_Witness ==
  \E p, q \in Procs :
    /\ p # q
    /\ Done(p, "Delete") /\ Done(q, "Delete")
    /\ req[p].QueryEmail = req[q].QueryEmail
    /\ res[p].err = NoErr /\ res[q].err = NoErr
    /\ calls[p][1].hit /\ ~calls[q][1].hit

\* C7: for every body that fails structural decoding, Create and Update fail
\* with "invalid user data" without having issued any store call.
C7_UndecodableRejected ==
  \A p \in Procs :
    ((Active(p, "Create") \/ Active(p, "Update")) /\ Undecodable(req[p].Body))
      => /\ pc[p] = "done"
         /\ res[p] = Return(NilUser, ErrorInvalidUserData)
         /\ calls[p] = <<>>

C7_Witness ==
  \E p, q \in Procs :
    /\ Done(p, "Create") /\ ~req[p].Body.syntax
    /\ Done(q, "Update") /\ req[q].Body.syntax /\ Undecodable(req[q].Body)
    /\ res[p].err = ErrorInvalidUserData /\ res[q].err = ErrorInvalidUserData

\* C8: for every decodable body whose email fails the format check, Create
\* fails with "invalid email" without having issued any store call.
C8_InvalidEmailRejected ==
  \A p \in Procs :
    (Active(p, "Create") /\ ~Undecodable(req[p].Body)
       /\ ~IsEmailValid(req[p].Body.email.v))
      => /\ pc[p] = "done"
         /\ res[p] = Return(NilUser, ErrorInvalidEmail)
         /\ calls[p] = <<>>

C8_Witness ==
  \E p, q \in Procs :
    /\ Done(p, "Create") /\ req[p].Body.email = JStr(EmailSpace)
    /\ Done(q, "Create") /\ req[q].Body.email = JStr(EmailNoAt)
    /\ res[p].err = ErrorInvalidEmail /\ res[q].err = ErrorInvalidEmail

\* C9: when the store lookup of the existence check fails, Create and Update
\* both fail with the message "failed to fetch record", and issue no write.
C9_LookupFailure ==
  \A p \in Procs :
    ((op[p] = "Create" \/ op[p] = "Update") /\ Len(calls[p]) >= 1
       /\ calls[p][1].err # NoErr)
      => /\ pc[p] = "done"
         /\ res[p] = Return(NilUser, "failed to fetch record")
         /\ Len(calls[p]) = 1

C9_Witness ==
  \E p, q \in Procs :
    /\ Done(p, "Create") /\ Done(q, "Update")
    /\ Len(calls[p]) = 1 /\ calls[p][1].err \in StoreErrors
    /\ Len(calls[q]) = 1 /\ calls[q][1].err \in StoreErrors
    /\ res[p].err = ErrorFailedToFetchRecord /\ res[q].err = ErrorFailedToFetchRecord

\* C10 as stated: when the store lookup in Update fails, Update returns the
\* raw underlying store error.
C10_UpdateReturnsRawStoreError ==
  \A p \in Procs :
    (Done(p, "Update") /\ Len(calls[p]) >= 1 /\ calls[p][1].err # NoErr)
      => res[p].err = calls[p][1].err

\* C10 amended: when the store lookup in Update fails, the error Update
\* returns is the taxonomy error FetchUser made of it, never the store's own
\* error; every error any operation returns is a taxonomy message.
C10_NoRawErrorReachesCaller ==
  \A p \in Procs :
    pc[p] = "done"
      => /\ res[p].err \in Taxonomy \cup {NoErr}
         /\ \A k \in 1..Len(calls[p]) :
              calls[p][k].err # NoErr => res[p].err \notin {calls[p][k].err, NoErr}

C10_Witness ==
  \E p \in Procs :
    /\ Done(p, "Update") /\ Len(calls[p]) = 1
    /\ calls[p][1].err = "test error"
    /\ res[p].err = ErrorFailedToFetchRecord
    /\ req[p].Body.email = JStr(EmailB)

\* C11: when validation and the existence lookup pass but the store write
\* fails, Create and Update both fail with "could not update record" and
\* return no record.
C11_WriteFailure ==
  \A p \in Procs :
    ((op[p] = "Create" \/ op[p] = "Update") /\ Len(calls[p]) = 2
       /\ calls[p][2].api = "PutItem" /\ calls[p][2].err # NoErr)
      => /\ pc[p] = "done"
         /\ res[p].err = "could not update record"
         /\ res[p].user = NilUser

C11_Witness ==
  \E p, q \in Procs :
    /\ Done(p, "Create") /\ Done(q, "Update")
    /\ Len(calls[p]) = 2 /\ calls[p][1].err = NoErr /\ calls[p][2].err \in StoreErrors
    /\ Len(calls[q]) = 2 /\ calls[q][1].err = NoErr /\ calls[q][2].err \in StoreErrors
    /\ res[p].err = ErrorCouldNotDynamoPutItem /\ res[q].err = ErrorCouldNotDynamoPutItem

C12_ScanStep(p) ==
  (op[p] = "Get" /\ pc[p] = "Scan" /\ pc'[p] # pc[p])
    => IF LastCall(p).err # NoErr
       THEN res'[p] = Return(NilUser, "failed to fetch record")
       ELSE /\ res'[p].err = NoErr
            /\ Len(res'[p].user.list) = Len(LastCall(p).item)
            /\ \A i \in 1..Len(LastCall(p).item) :
                 LastCall(p).item[i] =
                   {<<"email", res'[p].user.list[i].Email>>,
                    <<"firstName", res'[p].user.list[i].FirstName>>,
                    <<"lastName", res'[p].user.list[i].LastName>>}

\* C12: a FetchAll whose scan succeeds returns exactly the scanned records,
\* in the order the store returned them and with every field value kept; a
\* scan of zero records gives an empty sequence and no error; a scan failure
\* gives "failed to fetch record".
C12_FetchAllPreservesScan == [][\A p \in Procs : C12_ScanStep(p)]_vars

C12_Witness ==
  \E p \in Procs :
    /\ Done(p, "Get") /\ res[p].err = NoErr
    /\ calls[p][1].api = "Scan" /\ Len(calls[p][1].item) = 2
    /\ res[p].user = UserList(<<User(EmailB, <<"A">>, <<"L">>), User(EmailA, <<"B">>, <<"L">>)>>)

\* C13: at the request/response boundary every failure from the error
\* taxonomy, of any operation, is answered with status 500 and a body whose
\* single error field is the taxonomy message.
C13_FailureIs500 ==
  \A p \in Procs :
    (pc[p] = "done" /\ res[p].err \in Taxonomy)
      => Response(p) = [StatusCode |-> 500, Body |-> [error |-> res[p].err]]

Mutating(p) == op[p] \in {"Create", "Update", "Delete"}
C14_NoRepeatedCall(p) ==
  Mutating(p)
    => \A i, j \in 1..Len(calls[p]) : calls[p][i].api = calls[p][j].api => i = j
C14_StoreChange ==
  store' # store
    => \E p \in Procs :
         /\ Mutating(p) /\ pc[p] \notin {"idle", "done"} /\ pc'[p] = "done"
         /\ res'[p].err = NoErr
         /\ LastCall(p).err = NoErr

\* C14: the store changes only in the last step of a Create, Update or Delete
\* that returns success, so an invocation that returns an error has left the
\* store as it found it; and no invocation issues the same store call twice.
C14_AllOrNothing ==
  /\ [](\A p \in Procs : C14_NoRepeatedCall(p))
  /\ [][C14_StoreChange]_vars

C14_Witness ==
  \E p \in Procs :
    /\ Done(p, "Update") /\ res[p].err = ErrorCouldNotDynamoPutItem
    /\ Len(calls[p]) = 2 /\ calls[p][2].hit
    /\ calls[p][2].item # calls[p][1].item
    /\ calls[p][1].item \in store

\* C15: starting from an empty store, after any sequence of Create, Update
\* and Delete invocations every stored record has an email that passes the
\* email-format check.
C15_StoredEmailsValid ==
  \A i \in store : IsEmailValid(Attr(i, "email"))
====
